---- MODULE Spec2Model ----
(***************************************************************************)
(* Model of nider/models.py: Content (the aggregate of header, paragraph   *)
(* and linkback), Image (the orchestrator) and its three render paths      *)
(* draw_on_texture, draw_on_bg and draw_on_image.                          *)
(*                                                                         *)
(* A behaviour follows ONE Content object and the Images built over it.    *)
(* Collaborators (PIL, nider.colors, nider.utils, os.path) are modelled by *)
(* the calls made to them, recorded in the order the code makes them.      *)
(*                                                                         *)
(* Image.title, Image.description, Image.fullpath and Image.bgcolor are    *)
(* written but never read by the layout and are left out of the state.     *)
(*                                                                         *)
(* Horizontal positions are kept multiplied by 40 (field x40), so that     *)
(* 0.075 * width, 0.925 * width - w and (width - w) / 2 are exact integers.*)
(***************************************************************************)
EXTENDS Integers, Sequences, FiniteSets

VARIABLES
    content,   \* the Content object, or NoContent before it is constructed
    image,     \* the newest Image over content, or NoImage
    call,      \* the operation invoked last, with the receiver's size at entry
    raised,    \* the exception the last operation raised, or "none"
    trace,     \* collaborator calls made by the last operation, in order
    notices,   \* warnings.warn calls of the last operation, in order
    layout,    \* _draw_unit calls of the last operation: unit and start_height
    draws      \* ImageDraw.text calls of the last operation, in order

vars == <<content, image, call, raised, trace, notices, layout, draws>>

-----------------------------------------------------------------------------
(* Bounds of the model *)

MaxUnitHeight == 1
MaxLines == 2
MaxLinePadding == 1

(* Program constants *)

DefaultPadding == 45
DefaultBottomPadding == 20
DefaultSize == 1080

-----------------------------------------------------------------------------
(* Values *)

Kinds == <<"header", "para", "linkback">>

\* A colour: base names it, inv marks generate_opposite_color(base), dark counts
\* the blends towards '#000'.  NoColor is the falsy color (None).
NoColor == [base |-> "None", inv |-> FALSE, dark |-> 0]
Explicit == [base |-> "#FFF", inv |-> FALSE, dark |-> 0]
ExplicitOutline == [base |-> "#111", inv |-> FALSE, dark |-> 0]

NoOutline == [present |-> FALSE, width |-> 0, color |-> NoColor]
NoUnit == [present |-> FALSE, height |-> 0, color |-> NoColor, outline |-> NoOutline,
           align |-> "center", lines |-> <<>>, multiline |-> FALSE, line_padding |-> 0,
           bottom_padding |-> 0]

generate_opposite_color(c) == [base |-> c, inv |-> TRUE, dark |-> 0]
blend(c) == [c EXCEPT !.dark = @ + 1]

RECURSIVE SumH(_)
SumH(lines) == IF lines = <<>> THEN 0 ELSE Head(lines).h + SumH(Tail(lines))

\* nider.core: a unit's height from its wrapped lines
TextHeight(lines, line_padding) ==
    IF lines = <<>> THEN 0 ELSE SumH(lines) + (Len(lines) - 1) * line_padding

\* Header / Paragraph: MultilineTextUnit
MultilineTextUnit(lines, line_padding, color, outline, align) ==
    [present |-> TRUE, height |-> TextHeight(lines, line_padding), color |-> color,
     outline |-> outline, align |-> align, lines |-> lines, multiline |-> TRUE,
     line_padding |-> line_padding, bottom_padding |-> 0]

\* Linkback._set_height: the base height plus bottom_padding
LinkbackHeight(base, bottom_padding) == base + bottom_padding

\* Linkback: SingleLineTextUnit, no wrapped_lines and no line_padding attribute
Linkback(line, bottom_padding, color, outline, align) ==
    [present |-> TRUE, height |-> LinkbackHeight(line.h, bottom_padding), color |-> color,
     outline |-> outline, align |-> align, lines |-> <<line>>, multiline |-> FALSE,
     line_padding |-> 0, bottom_padding |-> bottom_padding]

-----------------------------------------------------------------------------
(* Content *)

\* Content.__init__, line 58: any((paragraph, header, linkback))
AnyUnit(para, header, linkback) == para.present \/ header.present \/ linkback.present

\* Content.__init__, lines 65-69
DependsOnOpposite(para, header, linkback) ==
    ~ \A u \in {para, header, linkback} : u.present => u.color # NoColor

\* variant: the header padded on both sides, like the paragraph
ContentHeightHeaderDouble(para, header, linkback, padding) ==
    (IF para.present THEN 2 * padding + para.height ELSE 0)
    + (IF header.present THEN 2 * padding + header.height ELSE 0)
    + (IF linkback.present THEN linkback.height ELSE 0)

\* Content._set_content_height
ContentHeight(para, header, linkback, padding) ==
    LET h0 == 0
        h1 == IF para.present THEN h0 + 2 * padding + para.height ELSE h0
        h2 == IF header.present THEN h1 + 1 * padding + header.height ELSE h1
        h3 == IF linkback.present THEN h2 + linkback.height ELSE h2
    IN  h3

\* Content.__init__ on success; fits is the class attribute's default
MkContent(para, header, linkback, padding) ==
    [constructed |-> TRUE,
     units |-> [header |-> header, para |-> para, linkback |-> linkback],
     padding |-> padding,
     depends_on_opposite_to_bg_color |-> DependsOnOpposite(para, header, linkback),
     height |-> ContentHeight(para, header, linkback, padding),
     fits |-> TRUE]

\* no Content object yet
NoContent == [MkContent(NoUnit, NoUnit, NoUnit, 0) EXCEPT !.constructed = FALSE]

-----------------------------------------------------------------------------
(* Image: construction and canvas size *)

\* Image._set_image_size, line 195
BadSize(width, height) == width <= 0 \/ height <= 0

\* Image.__init__ on success; opposite_to_bg_color and image are not set yet
MkImage(width, height) ==
    [constructed |-> TRUE, width |-> width, height |-> height,
     opposite_to_bg_color |-> NoColor, buffer |-> [w |-> 0, h |-> 0]]

\* no Image object yet
NoImage == [MkImage(0, 0) EXCEPT !.constructed = FALSE]

\* Image._fix_image_size: the new self.height, the new content.fits, the warning
FixImageSize(height, contentHeight, fits) ==
    IF contentHeight >= height
    THEN [height |-> contentHeight, fits |-> FALSE,
          notices |-> <<[kind |-> "ImageSizeFixedWarning", unit |-> "image"]>>]
    ELSE [height |-> height, fits |-> fits, notices |-> <<>>]

-----------------------------------------------------------------------------
(* Image._prepare_content *)

\* variant: the color is assigned without looking at unit.color
NeedsColorAlways(unit) == TRUE

\* line 270: if not unit.color
NeedsColor(unit) == unit.color = NoColor

\* line 276: if unit.outline and not unit.outline.color
NeedsOutlineColor(unit) == unit.outline.present /\ unit.outline.color = NoColor

\* lines 270-273: the unit's color after the first if
ColoredUnit(unit, opposite) ==
    IF NeedsColor(unit) THEN [unit EXCEPT !.color = opposite] ELSE unit

\* lines 269-280 for one unit: the unit as left by the loop body
PreparedUnit(unit, opposite) ==
    LET u == ColoredUnit(unit, opposite)
    IN  IF ~unit.present THEN unit
        ELSE IF NeedsOutlineColor(u) THEN [u EXCEPT !.outline.color = blend(u.color)]
        ELSE u

\* lines 269-280 for one unit: the warnings of the loop body
UnitNotices(unit, kind, opposite) ==
    IF ~unit.present THEN <<>>
    ELSE (IF NeedsColor(unit)
          THEN <<[kind |-> "AutoGeneratedUnitColorUsedWarning", unit |-> kind]>>
          ELSE <<>>)
         \o (IF NeedsOutlineColor(ColoredUnit(unit, opposite))
             THEN <<[kind |-> "AutoGeneratedUnitOutlinecolorUsedWarning", unit |-> kind]>>
             ELSE <<>>)

\* the loop of line 268 over [content.header, content.para, content.linkback]
PreparedUnits(units, opposite) ==
    [k \in DOMAIN units |-> PreparedUnit(units[k], opposite)]

PrepareNotices(units, opposite) ==
    UnitNotices(units.header, "header", opposite)
    \o UnitNotices(units.para, "para", opposite)
    \o UnitNotices(units.linkback, "linkback", opposite)

-----------------------------------------------------------------------------
(* Layout: _draw_header, _draw_para, _draw_linkback *)

\* Image._draw_header
HeaderOffset(padding) == padding

\* variant: the stacked paragraph starts at padding, header or not
ParaOffsetIgnoringHeader(fits, height, para, header, padding) ==
    IF fits THEN (height - para.height) \div 2 ELSE padding

\* Image._draw_para; math.floor(a / 2) is a \div 2, which rounds down
ParaOffset(fits, height, para, header, padding) ==
    IF fits
    THEN (height - para.height) \div 2
    ELSE IF header.present
         THEN 2 * padding + header.height
         ELSE padding

\* Image._draw_linkback
LinkbackOffset(height, linkback) == height - linkback.height

-----------------------------------------------------------------------------
(* Image._draw_unit *)

\* lines 331-336, times 40
LineX40(align, width, w) ==
    CASE align = "center" -> 20 * (width - w)
      [] align = "left"   -> 3 * width
      [] align = "right"  -> 37 * width - 40 * w

TextCall(kind, i, x40, y, fill) ==
    [unit |-> kind, line |-> i, x40 |-> x40, y |-> y, fill |-> fill]

\* variant: the thin border alone
OutlineDrawsThinOnly(kind, i, x40, y, outline) ==
    LET d == outline.width
        c == outline.color
    IN  << TextCall(kind, i, x40 - 40 * d, y, c), TextCall(kind, i, x40 + 40 * d, y, c),
           TextCall(kind, i, x40, y - d, c),      TextCall(kind, i, x40, y + d, c) >>

\* lines 339-358: the thin border, then the thicker border
OutlineDraws(kind, i, x40, y, outline) ==
    LET d == outline.width
        c == outline.color
    IN  << TextCall(kind, i, x40 - 40 * d, y, c), TextCall(kind, i, x40 + 40 * d, y, c),
           TextCall(kind, i, x40, y - d, c),      TextCall(kind, i, x40, y + d, c),
           TextCall(kind, i, x40 - 40 * d, y - d, c), TextCall(kind, i, x40 + 40 * d, y - d, c),
           TextCall(kind, i, x40 - 40 * d, y + d, c), TextCall(kind, i, x40 + 40 * d, y + d, c) >>

\* lines 330-360: the draws of one line
LineDraws(unit, kind, width, i, y) ==
    LET x40 == LineX40(unit.align, width, unit.lines[i].w)
    IN  (IF unit.outline.present THEN OutlineDraws(kind, i, x40, y, unit.outline) ELSE <<>>)
        \o << TextCall(kind, i, x40, y, unit.color) >>

\* lines 325 and 362-363: line_padding is None for a unit without the attribute,
\* and "if line_padding" is false for None and for 0
NextCursor(unit, h, current_h) ==
    IF unit.multiline /\ unit.line_padding # 0
    THEN current_h + h + unit.line_padding
    ELSE current_h

RECURSIVE DrawLines(_, _, _, _, _)
DrawLines(unit, kind, width, i, current_h) ==
    IF i > Len(unit.lines) THEN <<>>
    ELSE LineDraws(unit, kind, width, i, current_h)
         \o DrawLines(unit, kind, width, i + 1, NextCursor(unit, unit.lines[i].h, current_h))

\* Image._draw_unit(start_height, unit)
DrawUnit(start_height, unit, kind, width) == DrawLines(unit, kind, width, 1, start_height)

-----------------------------------------------------------------------------
(* Image._draw_content *)

\* the start_height each present unit is drawn at, in the order header, para, linkback
StartHeights(cont, units, img) ==
    [header   |-> HeaderOffset(cont.padding),
     para     |-> ParaOffset(cont.fits, img.height, units.para, units.header, cont.padding),
     linkback |-> LinkbackOffset(img.height, units.linkback)]

RECURSIVE LayoutFrom(_, _, _)
LayoutFrom(units, starts, i) ==
    IF i > Len(Kinds) THEN <<>>
    ELSE (IF units[Kinds[i]].present
          THEN <<[unit |-> Kinds[i], start |-> starts[Kinds[i]]]>> ELSE <<>>)
         \o LayoutFrom(units, starts, i + 1)

RECURSIVE DrawsFrom(_, _, _)
DrawsFrom(units, lay, width) ==
    IF lay = <<>> THEN <<>>
    ELSE DrawUnit(Head(lay).start, units[Head(lay).unit], Head(lay).unit, width)
         \o DrawsFrom(units, Tail(lay), width)

\* _draw_content on an image of the given size: the units as prepared, the
\* warnings, the _draw_unit calls and the text calls
DrawContent(cont, img) ==
    LET units == PreparedUnits(cont.units, img.opposite_to_bg_color)
        lay == LayoutFrom(units, StartHeights(cont, units, img), 1)
    IN  [units |-> units,
         notices |-> PrepareNotices(cont.units, img.opposite_to_bg_color),
         layout |-> lay,
         draws |-> DrawsFrom(units, lay, img.width)]

TextCalls(d) == [i \in 1..Len(d) |-> "ImageDraw.text"]

-----------------------------------------------------------------------------
(* The render paths *)

Call(op, arg) == [op |-> op, arg |-> arg]

\* variant: the path is never looked at
IsMissingNever(path) == FALSE

\* os.path.isfile(path) is false
IsMissing(path) == path = "missing"

\* get_img_dominant_color of a texture or photo; color_to_rgb / get_random_bgcolor
DominantColor(path) == IF path = "None" THEN "texture.png" ELSE path
BgColor(bgcolor) == IF bgcolor = "None" THEN "#F00" ELSE bgcolor

\* lines 116-119, 137-138, 157-160: self.opposite_to_bg_color is set only when
\* the content depends on it
WithOpposite(img, cont, bg) ==
    IF cont.depends_on_opposite_to_bg_color
    THEN [img EXCEPT !.opposite_to_bg_color = generate_opposite_color(bg)]
    ELSE img

\* Image._create_image: _fix_image_size, then PIL_Image.new
CreateImage(img, cont) ==
    LET f == FixImageSize(img.height, cont.height, cont.fits)
    IN  [image |-> [img EXCEPT !.height = f.height,
                               !.buffer = [w |-> img.width, h |-> f.height]],
         content |-> [cont EXCEPT !.fits = f.fits],
         notices |-> f.notices,
         trace |-> <<"fix_image_size", "Image.new">>]

\* _draw_content and _save, after the steps in pre
DrawAndSave(img, cont, pre, warned) ==
    LET dc == DrawContent(cont, img)
    IN  /\ content' = [cont EXCEPT !.units = dc.units]
        /\ image' = img
        /\ raised' = "none"
        /\ trace' = pre \o TextCalls(dc.draws) \o <<"Image.save">>
        /\ notices' = warned \o dc.notices
        /\ layout' = dc.layout
        /\ draws' = dc.draws

\* raise before anything else was done
Raise(exc, pre) ==
    /\ raised' = exc
    /\ trace' = pre
    /\ notices' = <<>>
    /\ layout' = <<>>
    /\ draws' = <<>>
    /\ UNCHANGED <<content, image>>

\* Content(paragraph, header, linkback, padding)
NewContent(para, header, linkback, padding) ==
    /\ ~content.constructed
    /\ call' = Call("Content", IF AnyUnit(para, header, linkback) THEN "units" ELSE "empty")
    /\ IF ~AnyUnit(para, header, linkback)
       THEN Raise("ImageGeneratorException", <<>>)
       ELSE /\ content' = MkContent(para, header, linkback, padding)
            /\ raised' = "none"
            /\ trace' = <<>>
            /\ notices' = <<>>
            /\ layout' = <<>>
            /\ draws' = <<>>
            /\ UNCHANGED image

\* Image(content, fullpath, width, height)
NewImage(width, height, creatable) ==
    /\ content.constructed
    /\ call' = Call("Image", IF ~creatable THEN "not creatable"
                              ELSE IF BadSize(width, height) THEN "bad size" ELSE "ok")
    /\ IF ~creatable \/ BadSize(width, height)
       THEN Raise("AttributeError", <<"is_path_creatable">>)
       ELSE /\ image' = MkImage(width, height)
            /\ raised' = "none"
            /\ trace' = <<"is_path_creatable">>
            /\ notices' = <<>>
            /\ layout' = <<>>
            /\ draws' = <<>>
            /\ UNCHANGED content

\* Image.draw_on_texture(texture_path)
DrawOnTexture(texture_path) ==
    /\ image.constructed
    /\ call' = Call("draw_on_texture", texture_path)
    /\ LET check == IF texture_path = "None" THEN <<"get_random_texture">> ELSE <<"isfile">>
           dom == IF content.depends_on_opposite_to_bg_color
                  THEN <<"get_img_dominant_color">> ELSE <<>>
           c == CreateImage(WithOpposite(image, content, DominantColor(texture_path)), content)
       IN  IF texture_path # "None" /\ IsMissing(texture_path)
           THEN Raise("FileNotFoundError", check)
           ELSE DrawAndSave(c.image, c.content,
                            check \o dom \o c.trace
                            \o <<"ImageDraw.Draw", "Image.open(texture)", "Image.paste">>,
                            c.notices)

\* Image.draw_on_bg(bgcolor)
DrawOnBg(bgcolor) ==
    /\ image.constructed
    /\ call' = Call("draw_on_bg", bgcolor)
    /\ LET c == CreateImage(WithOpposite(image, content, BgColor(bgcolor)), content)
       IN  DrawAndSave(c.image, c.content,
                       c.trace \o <<"ImageDraw.Draw", "ImageDraw.rectangle">>, c.notices)

\* the size of the photo at image_path
PhotoSize(image_path) == [w |-> 640, h |-> 50]

\* Image.draw_on_image(image_path); filters and enhancements are passed through
\* to PIL and keep the size
DrawOnImage(image_path) ==
    /\ image.constructed
    /\ call' = Call("draw_on_image", image_path)
    /\ LET dom == IF content.depends_on_opposite_to_bg_color
                  THEN <<"get_img_dominant_color">> ELSE <<>>
           opened == [WithOpposite(image, content, DominantColor(image_path))
                          EXCEPT !.buffer = PhotoSize(image_path)]
           sized == [opened EXCEPT !.width = opened.buffer.w, !.height = opened.buffer.h]
       IN  IF IsMissing(image_path)
           THEN Raise("FileNotFoundError", <<"isfile">>)
           ELSE DrawAndSave(sized, content,
                            <<"isfile", "Image.open(image)">> \o dom \o <<"ImageDraw.Draw">>,
                            <<>>)

-----------------------------------------------------------------------------
(* Inputs *)

Line(h) == [w |-> 10, h |-> h]

RECURSIVE LinesUpTo(_)
LinesUpTo(n) ==
    IF n = 0 THEN {<<>>}
    ELSE LinesUpTo(n - 1)
         \cup {Append(l, Line(h)) : l \in {x \in LinesUpTo(n - 1) : Len(x) = n - 1}, h \in {1, 3}}

Outline(width, color) == [present |-> TRUE, width |-> width, color |-> color]

\* contents that differ in the units' heights and the padding
PlainText(h) == MultilineTextUnit(<<Line(h)>>, 6, Explicit, NoOutline, "center")
PlainTexts == {NoUnit} \cup {PlainText(h) : h \in (1..MaxUnitHeight) \cup {100}}
PlainLinkbacks ==
    {NoUnit} \cup {Linkback(Line(h), b, Explicit, NoOutline, "center") :
                       h \in 1..MaxUnitHeight, b \in {0, DefaultBottomPadding}}
LayoutInputs ==
    [para : PlainTexts, header : PlainTexts, linkback : PlainLinkbacks,
     padding : {0, DefaultPadding}]

\* contents that differ in which colors are given
TintedTexts ==
    {MultilineTextUnit(<<Line(1)>>, 6, c, o, "center") :
         c \in {NoColor, Explicit},
         o \in {NoOutline, Outline(1, NoColor), Outline(1, ExplicitOutline)}}
ColorInputs ==
    [para : {NoUnit, MultilineTextUnit(<<Line(1)>>, 6, NoColor, Outline(1, NoColor), "center")},
     header : TintedTexts, linkback : {NoUnit}, padding : {DefaultPadding}]

\* contents of one unit that differ in its lines, line padding, outline and alignment
Styles ==
    {[outline |-> NoOutline, align |-> "center"],
     [outline |-> Outline(1, ExplicitOutline), align |-> "left"],
     [outline |-> Outline(2, ExplicitOutline), align |-> "right"]}
Wrapped ==
    {MultilineTextUnit(l, lp, Explicit, s.outline, s.align) :
         l \in LinesUpTo(MaxLines) \ {<<>>}, lp \in 0..MaxLinePadding, s \in Styles}
OneLiners ==
    {Linkback(Line(1), DefaultBottomPadding, Explicit, s.outline, s.align) : s \in Styles}
RasterInputs ==
    [para : {NoUnit}, header : Wrapped, linkback : {NoUnit}, padding : {DefaultPadding}]
    \cup [para : {NoUnit}, header : {NoUnit}, linkback : OneLiners, padding : {DefaultPadding}]

ContentInputs == LayoutInputs \cup ColorInputs \cup RasterInputs

\* Image(content, fullpath, width, height): the requested sizes, a non-positive
\* size, and a fullpath that is not creatable
ImageInputs ==
    [width : {DefaultSize}, height : {1, 2, 150, DefaultSize}, creatable : {TRUE}]
    \cup {[width |-> DefaultSize, height |-> 0, creatable |-> TRUE],
          [width |-> DefaultSize, height |-> DefaultSize, creatable |-> FALSE]}

-----------------------------------------------------------------------------
(* Specification *)

Init ==
    /\ content = NoContent
    /\ image = NoImage
    /\ call = Call("none", "none")
    /\ raised = "none"
    /\ trace = <<>>
    /\ notices = <<>>
    /\ layout = <<>>
    /\ draws = <<>>

Next ==
    \/ /\ ~content.constructed
       /\ \E c \in ContentInputs : NewContent(c.para, c.header, c.linkback, c.padding)
    \/ \E i \in ImageInputs : NewImage(i.width, i.height, i.creatable)
    \/ \E t \in {"None", "texture.png", "missing"} : DrawOnTexture(t)
    \/ \E b \in {"None", "#F00"} : DrawOnBg(b)
    \/ \E i \in {"photo.jpg", "missing"} : DrawOnImage(i)

Spec == Init /\ [][Next]_vars

-----------------------------------------------------------------------------
(* Vocabulary of the properties *)

RenderOps == {"draw_on_texture", "draw_on_bg", "draw_on_image"}
CanvasOps == {"draw_on_texture", "draw_on_bg"}

\* the last operation was a render that ran to its end
Rendered(ops) == call.op \in ops /\ raised = "none"

Present(kind) == content.units[kind].present

\* the start_height _draw_unit was called with for the unit
StartOf(lay, kind) == lay[CHOOSE i \in 1..Len(lay) : lay[i].unit = kind].start

\* the vertical extent given to the unit
Extent(lay, kind) ==
    [lo |-> StartOf(lay, kind), hi |-> StartOf(lay, kind) + content.units[kind].height]

\* two extents share no interior point
Apart(a, b) == a.hi <= b.lo \/ b.hi <= a.lo

Within(a, height) == 0 <= a.lo /\ a.hi <= height

IndexOf(seq, x) == CHOOSE i \in 1..Len(seq) : seq[i] = x
Has(seq, x) == \E i \in 1..Len(seq) : seq[i] = x

ParaOnly(h, padding) ==
    /\ content.constructed
    /\ Present("para") /\ ~Present("header") /\ ~Present("linkback")
    /\ content.units.para.height = h
    /\ content.padding = padding

-----------------------------------------------------------------------------
(* C1 *)

\* C1: on every render path the canvas-size check (_fix_image_size) runs before
\* the pixel buffer used for drawing is allocated (Image.new) or obtained
\* (Image.open of the photo), hence before any text is drawn.
C1_SizeCheckBeforeBuffer ==
    Rendered(RenderOps) =>
        /\ Has(trace, "fix_image_size")
        /\ \A i \in 1..Len(trace) :
               trace[i] \in {"Image.new", "Image.open(image)", "ImageDraw.text"}
                   => IndexOf(trace, "fix_image_size") < i

-----------------------------------------------------------------------------
(* C2 *)

\* C2: if content.height >= the image height, then after _fix_image_size the
\* image height equals content.height and content.fits is false; otherwise the
\* image width and height are unchanged and content.fits is true.
C2_FixImageSizeOutcome ==
    [][ (call'.op \in CanvasOps /\ raised' = "none") =>
            IF content.height >= image.height
            THEN image'.height = content.height /\ ~content'.fits
            ELSE /\ image'.width = image.width
                 /\ image'.height = image.height
                 /\ content'.fits ]_vars

-----------------------------------------------------------------------------
(* C3 *)

\* C3: the engine is stateless across calls: the fit decision and the
\* paragraph's offset of a render are those of the same render of a Content
\* that was never rendered before (fits still at its default).
C3_StatelessAcrossCalls ==
    [][ (call'.op \in CanvasOps /\ raised' = "none") =>
            LET fresh == CreateImage(image, [content EXCEPT !.fits = TRUE])
            IN  /\ content'.fits = fresh.content.fits
                /\ Present("para") =>
                       StartOf(layout', "para")
                           = ParaOffset(fresh.content.fits, fresh.image.height,
                                        content.units.para, content.units.header,
                                        content.padding) ]_vars

-----------------------------------------------------------------------------
(* C4 *)

\* C4: the paragraph starts at floor((canvasHeight - paragraph.height) / 2) when
\* content.fits is true, and at 2*padding + header.height (header present) or
\* padding (no header) when it is false; a paragraph-only content of height 100
\* with padding 45 is drawn at 490 on a requested height of 1080 and at 45 on a
\* requested height of 150, the canvas grown to 190.
C4_ParagraphOffset ==
    [][ (call'.op \in RenderOps /\ raised' = "none" /\ Present("para")) =>
            /\ StartOf(layout', "para") =
                   IF content'.fits
                   THEN (image'.height - content.units.para.height) \div 2
                   ELSE IF Present("header")
                        THEN 2 * content.padding + content.units.header.height
                        ELSE content.padding
            /\ (call'.op \in CanvasOps /\ ParaOnly(100, 45) /\ image.height = 1080)
                   => StartOf(layout', "para") = 490
            /\ (call'.op \in CanvasOps /\ ParaOnly(100, 45) /\ image.height = 150)
                   => image'.height = 190 /\ StartOf(layout', "para") = 45 ]_vars

-----------------------------------------------------------------------------
(* C5 *)

NoticesFor(seq, kind) == SelectSeq(seq, LAMBDA n : n.unit = kind)

HasNotice(seq, warning, kind) == Has(seq, [kind |-> warning, unit |-> kind])

\* C5, as claimed: a unit that already has a color keeps it through
\* _prepare_content, and no notice at all is emitted for that unit.
C5_NoNoticeForColoredUnit ==
    [][ (call'.op \in RenderOps /\ raised' = "none") =>
            \A k \in {"header", "para", "linkback"} :
                (Present(k) /\ content.units[k].color # NoColor) =>
                    /\ content'.units[k].color = content.units[k].color
                    /\ NoticesFor(notices', k) = <<>> ]_vars

\* C5, amended: a unit that already has a color keeps it through
\* _prepare_content and gets no auto-color notice; it gets the auto-outline-color
\* notice, once, exactly when it has an outline without a color.
C5_ColoredUnitKeepsColor ==
    [][ (call'.op \in RenderOps /\ raised' = "none") =>
            \A k \in {"header", "para", "linkback"} :
                (Present(k) /\ content.units[k].color # NoColor) =>
                    /\ content'.units[k].color = content.units[k].color
                    /\ ~HasNotice(notices', "AutoGeneratedUnitColorUsedWarning", k)
                    /\ NoticesFor(notices', k) =
                           IF /\ content.units[k].outline.present
                              /\ content.units[k].outline.color = NoColor
                           THEN <<[kind |-> "AutoGeneratedUnitOutlinecolorUsedWarning",
                                   unit |-> k]>>
                           ELSE <<>> ]_vars

\* a render gave the explicitly colored header's outline its color
C5_Witness ==
    /\ Rendered(RenderOps)
    /\ content.units.header.color = Explicit
    /\ content.units.header.outline.color = blend(Explicit)
    /\ HasNotice(notices, "AutoGeneratedUnitOutlinecolorUsedWarning", "header")
    /\ HasNotice(notices, "AutoGeneratedUnitColorUsedWarning", "para")

-----------------------------------------------------------------------------
(* C6 *)

\* C6: draw_on_texture or draw_on_image with a path that is no file raises
\* FileNotFoundError before a canvas is allocated or opened, and changes nothing:
\* the image's size, content.fits and every color are as before, and nothing is
\* saved.
C6_MissingFileChangesNothing ==
    [][ (call'.op \in {"draw_on_texture", "draw_on_image"} /\ call'.arg = "missing") =>
            /\ raised' = "FileNotFoundError"
            /\ \A i \in 1..Len(trace') :
                   trace'[i] \notin {"Image.new", "Image.open(image)", "Image.open(texture)",
                                     "ImageDraw.text", "Image.save"}
            /\ image' = image
            /\ content' = content
            /\ draws' = <<>> ]_vars

\* a missing photo, on an image not yet rendered whose content lacks a color
C6_Witness ==
    /\ call = Call("draw_on_image", "missing")
    /\ raised = "FileNotFoundError"
    /\ content.units.para.present /\ content.units.para.color = NoColor
    /\ content.height >= image.height
    /\ content.fits

-----------------------------------------------------------------------------
(* C7 *)

\* C7: content.height is the sum of 2*padding + paragraph.height (paragraph
\* present), padding + header.height (header present) and linkback.height, which
\* includes bottom_padding (linkback present); a Content of no unit raises.
C7_ContentHeight ==
    /\ content.constructed =>
           /\ Present("para") \/ Present("header") \/ Present("linkback")
           /\ content.height =
                  (IF Present("para")
                   THEN 2 * content.padding + content.units.para.height ELSE 0)
                  + (IF Present("header")
                     THEN content.padding + content.units.header.height ELSE 0)
                  + (IF Present("linkback")
                     THEN content.units.linkback.lines[1].h
                              + content.units.linkback.bottom_padding
                          ELSE 0)
    /\ call = Call("Content", "empty") =>
           raised = "ImageGeneratorException" /\ ~content.constructed
    /\ call = Call("Content", "units") => raised = "none" /\ content.constructed

\* a Content of all three units
C7_Witness ==
    /\ call = Call("Content", "units")
    /\ Present("para") /\ Present("header") /\ Present("linkback")
    /\ content.padding = DefaultPadding

-----------------------------------------------------------------------------
(* C8 *)

\* the text calls of one line of one unit, in order
LineCalls(kind, i) == SelectSeq(draws, LAMBDA d : d.unit = kind /\ d.line = i)

Offsets(d) ==
    {<<-40 * d, 0>>, <<40 * d, 0>>, <<0, -d>>, <<0, d>>,
     <<-40 * d, -d>>, <<40 * d, -d>>, <<-40 * d, d>>, <<40 * d, d>>}

\* C8: for every line drawn, a unit with an outline gets exactly 8 outline draws,
\* at the 4 axis and 4 diagonal offsets of +-outline.width in the outline color,
\* all before the single fill draw at (x, y) in the unit's color; a unit without
\* an outline gets exactly 1 draw.
C8_OutlineThenFill ==
    Rendered(RenderOps) =>
        \A n \in 1..Len(layout) :
            LET k == layout[n].unit
                u == content.units[k]
            IN  \A i \in 1..Len(u.lines) :
                    LET c == LineCalls(k, i)
                        f == c[Len(c)]
                    IN  /\ Len(c) = IF u.outline.present THEN 9 ELSE 1
                        /\ f.fill = u.color
                        /\ f.x40 = (IF u.align = "center" THEN 20 * (image.width - u.lines[i].w)
                                    ELSE IF u.align = "left" THEN 3 * image.width
                                    ELSE 37 * image.width - 40 * u.lines[i].w)
                        /\ u.outline.present =>
                               /\ \A j \in 1..8 : c[j].fill = u.outline.color
                               /\ {<<c[j].x40 - f.x40, c[j].y - f.y>> : j \in 1..8}
                                      = Offsets(u.outline.width)

\* a header of two lines with an outline of width 2 was drawn
C8_Witness ==
    /\ Rendered(RenderOps)
    /\ Present("header")
    /\ Len(content.units.header.lines) = 2
    /\ content.units.header.outline.present
    /\ content.units.header.outline.width = 2
    /\ Len(draws) = 18

-----------------------------------------------------------------------------
(* C9 *)

RECURSIVE Advance(_, _, _)
\* the sum over j < i of h_j + line_padding
Advance(lines, line_padding, i) ==
    IF i <= 1 THEN 0
    ELSE lines[i - 1].h + line_padding + Advance(lines, line_padding, i - 1)

\* C9: a multi-line unit, for every line padding >= 0, has its line i drawn at
\* start_height + the sum over j < i of (h_j + line_padding); a single-line unit
\* has exactly one line, drawn at start_height.
C9_LineCursor ==
    Rendered(RenderOps) =>
        \A n \in 1..Len(layout) :
            LET k == layout[n].unit
                u == content.units[k]
            IN  /\ u.multiline =>
                       \A i \in 1..Len(u.lines) :
                           LET c == LineCalls(k, i)
                           IN  c[Len(c)].y
                                   = layout[n].start + Advance(u.lines, u.line_padding, i)
                /\ ~u.multiline =>
                       /\ Len(u.lines) = 1
                       /\ LET c == LineCalls(k, 1)
                          IN  c[Len(c)].y = layout[n].start

-----------------------------------------------------------------------------
(* C10 *)

Drawn == {layout[n].unit : n \in 1..Len(layout)}

\* C10, as claimed: in texture and solid-color modes the extents
\* [offset, offset + unit.height] of the present units never overlap and lie
\* within [0, final canvas height], whether or not the content fits.
C10_UnitsNeverOverlap ==
    Rendered(CanvasOps) =>
        /\ \A k \in Drawn : Within(Extent(layout, k), image.height)
        /\ \A k \in Drawn : \A m \in Drawn \ {k} :
               Apart(Extent(layout, k), Extent(layout, m))

\* C10, amended: in texture and solid-color modes every extent lies within
\* [0, final canvas height] and header and linkback never overlap; the paragraph
\* overlaps neither of them when content.fits is false at draw time (when it is
\* true the paragraph is centred and may overlap them).
C10_UnitsApartUnlessCentred ==
    Rendered(CanvasOps) =>
        /\ \A k \in Drawn : Within(Extent(layout, k), image.height)
        /\ \A k \in Drawn : \A m \in Drawn \ {k} :
               ("para" \notin {k, m} \/ ~content.fits) =>
                   Apart(Extent(layout, k), Extent(layout, m))

\* all three units were drawn on a canvas grown to the content's height
C10_Witness ==
    /\ Rendered(CanvasOps)
    /\ ~content.fits
    /\ Drawn = {"header", "para", "linkback"}
    /\ image.height = content.height
    /\ content.padding = DefaultPadding

====
